---- MODULE Spec2Model ----
(***************************************************************************)
(* Seat selection, ticket reconciliation, the ticket-order store and the   *)
(* batch checkout of the Nickflix storefront, as one state machine.        *)
(*                                                                         *)
(* Every React event handler is one action.  An action contains the state  *)
(* updates of the handler, the callbacks it invokes on the parent          *)
(* component and the effects (useEffect) that the resulting render runs,   *)
(* so every state of the model is a quiescent state of the page.           *)
(*                                                                         *)
(* Money is counted in 1/10000 of a dollar, so that the 0.85 and 0.6       *)
(* price ratios and the 8% tax are exact integers.                         *)
(***************************************************************************)
EXTENDS Integers, Sequences, FiniteSets, TLC

VARIABLES
    seats,              \* SeatSelector: Seat[]
    selectedSeats,      \* SeatSelector: Seat[]
    isAdminMode,        \* SeatSelector
    editMode,           \* SeatSelector
    layoutName,         \* SeatSelector: the name input, a sequence of characters
    currentEditStatus,  \* SeatSelector: the palette choice
    showLayoutSelector, \* SeatSelector
    editBase,           \* the seats of the layout that was active when edit mode was
                        \* entered; <<>> outside edit mode
    pageSelectedSeats,  \* MovieDetails: selectedSeats, the prop of TicketCheckout
    showTicketCheckout, \* MovieDetails
    currentLayout,      \* MovieDetails: the initialLayout prop of SeatSelector
    availableLayouts,   \* MovieDetails
    layoutStorage,      \* localStorage['seat-layouts']
    basePrice,          \* TicketCheckout: pricing.basePrice, drawn once at mount
    ticketSelections,   \* TicketCheckout
    totals,             \* TicketCheckout
    orderStorage,       \* localStorage['ticket-orders']
    batchMounted,       \* CheckoutPage shows a BatchCheckout
    selectedOrderIds,   \* BatchCheckout
    paymentStep,        \* BatchCheckout
    processingPayment,  \* BatchCheckout
    availableOrders,    \* BatchCheckout: the working list
    timers,             \* BatchCheckout: settlement timers that have not fired yet
    now,                \* the clock: Date.now(), in milliseconds
    last                \* the operation that produced this state, and its arguments

seatVars == <<seats, selectedSeats, isAdminMode, editMode, layoutName,
              currentEditStatus, showLayoutSelector, editBase>>
pageVars == <<pageSelectedSeats, showTicketCheckout, currentLayout,
              availableLayouts, layoutStorage>>
ticketVars == <<basePrice, ticketSelections, totals>>
batchVars == <<batchMounted, selectedOrderIds, paymentStep, processingPayment,
               availableOrders, timers>>
vars == <<seatVars, pageVars, ticketVars, orderStorage, batchVars, now, last>>

-----------------------------------------------------------------------------
(* Bounds of the model *)

\* Seats in the stored "hall" layout used to exercise the ticket reconciler.
HallSeats == 5
\* Layout ids crypto.randomUUID() may return.
MaxLayoutId == 2
\* The clock runs from 0 to MaxTime.
MaxTime == 2
\* Math.floor(Math.random() * 1000) is drawn from 0..SuffixRange-1.
SuffixRange == 2
\* The ticket-order store holds at most MaxOrders orders.
MaxOrders == 3

-----------------------------------------------------------------------------
(* Seats and layouts: SeatSelector.tsx *)

SeatStatus == {"available", "selected", "occupied", "accessible", "empty"}

MkSeat(row, number, status) ==
    [id |-> <<row, number>>, status |-> status, originalStatus |-> status]

\* The cells of the sample grid that the model keeps (the source builds rows
\* A..H, seats 1..12 with the same rules): an empty and a selected one.
SampleCells == <<<<"A", 4>>, <<"H", 5>>>>

\* lines 43-58
SampleStatus(row, i) ==
    LET s1 == IF row \in {"D", "E", "F"} /\ i = 5 THEN "accessible" ELSE "available"
        s2 == IF row = "H" /\ i \in {5, 6, 7} THEN "selected" ELSE s1
    IN  IF i >= 4 /\ i <= 8 /\ row \in {"A", "B", "C"} /\ i % 2 = 0 THEN "empty" ELSE s2

generateSampleSeats ==
    [k \in DOMAIN SampleCells |->
        MkSeat(SampleCells[k][1], SampleCells[k][2],
               SampleStatus(SampleCells[k][1], SampleCells[k][2]))]

\* Layout names are sequences of characters; " " is white space.
DefaultLayoutName == <<"D">>
LayoutNames == {<<>>, <<" ">>, <<"D">>, <<"M">>}

RECURSIVE TrimStart(_)
TrimStart(s) == IF s # <<>> /\ Head(s) = " " THEN TrimStart(Tail(s)) ELSE s

RECURSIVE TrimEnd(_)
TrimEnd(s) ==
    IF s # <<>> /\ s[Len(s)] = " " THEN TrimEnd(SubSeq(s, 1, Len(s) - 1)) ELSE s

\* a name taken as it is typed
NoTrim(s) == s

\* line 156: layoutName.trim()
Trim(s) == TrimEnd(TrimStart(s))

\* undefined, as the value of MovieDetails.currentLayout
NoLayout == [id |-> 0, name |-> <<>>, seats |-> <<>>, updatedAt |-> 0]

sampleLayouts ==
    <<[id |-> -1, name |-> DefaultLayoutName, seats |-> generateSampleSeats,
       updatedAt |-> 0]>>

\* initialLayout?.seats || sampleLayouts[0].seats
InitialSeats(layout) == IF layout # NoLayout THEN layout.seats ELSE sampleLayouts[1].seats

IsSelected(s) == s.status = "selected"

SelectedOf(ss) == SelectSeq(ss, IsSelected)

\* a toggle that lets empty cells through
SelectableOrEmpty(status) == status \in {"available", "accessible", "selected", "empty"}

\* line 125: the statuses a viewer may toggle
Selectable(status) == status \in {"available", "accessible", "selected"}

\* lines 129-140: the viewer's toggle of the seats whose id is seat.id
ToggleSeats(ss, seat) ==
    [j \in DOMAIN ss |->
        IF ss[j].id = seat.id
        THEN [ss[j] EXCEPT !.status =
                 IF ss[j].status = "selected"
                 THEN (IF ss[j].originalStatus = "accessible"
                       THEN "accessible" ELSE "available")
                 ELSE "selected"]
        ELSE ss[j]]

\* a paint that spares occupied and selected seats
PaintFreeSeats(ss, seat, status) ==
    [j \in DOMAIN ss |->
        IF ss[j].id = seat.id /\ ss[j].status \notin {"occupied", "selected"}
        THEN [ss[j] EXCEPT !.status = status] ELSE ss[j]]

\* lines 116-121: the editor's paint of the seats whose id is seat.id
PaintSeats(ss, seat, status) ==
    [j \in DOMAIN ss |->
        IF ss[j].id = seat.id THEN [ss[j] EXCEPT !.status = status] ELSE ss[j]]

\* an effect that never recomputes the list
KeepSelectedSeats(newSeats, newAdmin, sel) == sel

\* lines 188-193: the effect on [isAdminMode, seats]
SelectedSeatsEffect(newSeats, newAdmin, sel) ==
    IF ~newAdmin THEN SelectedOf(newSeats) ELSE sel

-----------------------------------------------------------------------------
(* Ticket reconciliation: TicketCheckout *)

Categories == <<"adult", "teen", "child">>

\* line 116: taxRate = 0.08, in percent
TaxRatePercent == 8
\* line 242: Math.min(selectedSeats.length, 4)
MaxDefaultAdults == 4
\* line 113: basePrice = 10 + Math.floor(Math.random() * 5)
BasePrices == 10..14

\* lines 119-123, in 1/10000 dollar
TicketPrice(category, base) ==
    CASE category = "adult" -> base * 10000
      [] category = "teen"  -> base * 8500
      [] category = "child" -> base * 6000
      [] OTHER -> 0

RECURSIVE SumQuantity(_)
SumQuantity(sel) ==
    IF sel = <<>> THEN 0 ELSE Head(sel).quantity + SumQuantity(Tail(sel))

\* lines 162-165
totalTicketsSelected == SumQuantity(ticketSelections)

RECURSIVE Subtotal(_, _)
Subtotal(sel, base) ==
    IF sel = <<>> THEN 0
    ELSE TicketPrice(Head(sel).category, base) * Head(sel).quantity
         + Subtotal(Tail(sel), base)

\* totals whose total leaves the tax out
calculateTotalsBeforeTax(sel, base) ==
    LET subtotal == Subtotal(sel, base)
        tax      == (subtotal * TaxRatePercent) \div 100
    IN  [subtotal |-> subtotal, tax |-> tax, total |-> subtotal]

\* lines 169-183
calculateTotals(sel, base) ==
    LET subtotal == Subtotal(sel, base)
        tax      == (subtotal * TaxRatePercent) \div 100
    IN  [subtotal |-> subtotal, tax |-> tax, total |-> subtotal + tax]

Min(a, b) == IF a < b THEN a ELSE b
Max(a, b) == IF a > b THEN a ELSE b

\* lines 147-152: one adult ticket per seat
InitialTicketSelections(n) ==
    [k \in DOMAIN Categories |->
        [category |-> Categories[k],
         quantity |-> IF Categories[k] = "adult" THEN n ELSE 0]]

\* an effect that resets the quantities for an empty selection too
SeatChangeEffectAlways(newSelected, sel) ==
    InitialTicketSelections(Min(Len(newSelected), MaxDefaultAdults))

\* lines 238-251: the effect on [selectedSeats, pricing.tickets]
SeatChangeEffect(newSelected, sel) ==
    IF Len(newSelected) > 0
    THEN InitialTicketSelections(Min(Len(newSelected), MaxDefaultAdults))
    ELSE sel

\* a quantity change that does not look at the number of seats
updateTicketQuantityNoCap(sel, category, change, nSeats) ==
    [k \in DOMAIN sel |->
        IF sel[k].category = category
        THEN [sel[k] EXCEPT !.quantity = Max(0, sel[k].quantity + change)]
        ELSE sel[k]]

\* lines 189-204
updateTicketQuantity(sel, category, change, nSeats) ==
    [k \in DOMAIN sel |->
        IF sel[k].category = category
           /\ (SumQuantity(sel) + change <= nSeats \/ change < 0)
        THEN [sel[k] EXCEPT !.quantity = Max(0, sel[k].quantity + change)]
        ELSE sel[k]]

-----------------------------------------------------------------------------
(* The ticket-order store: ticketOrderService in TicketQueue *)

\* localStorage['ticket-orders']: no item, text that JSON.parse rejects, or the
\* JSON text of a list of orders
AbsentStorage == [kind |-> "absent", orders |-> <<>>]
CorruptStorage == [kind |-> "corrupt", orders |-> <<>>]
JsonStorage(orders) == [kind |-> "json", orders |-> orders]

\* lines 573-582
getOrders(storage) == IF storage.kind = "json" THEN storage.orders ELSE <<>>

DigitChars == <<"0", "1", "2", "3", "4", "5", "6", "7", "8", "9">>

\* the decimal numeral of n, as template literals print a number
RECURSIVE ToDigits(_)
ToDigits(n) ==
    IF n < 10 THEN <<DigitChars[n + 1]>>
    ELSE ToDigits(n \div 10) \o <<DigitChars[(n % 10) + 1]>>

\* line 588: `order-${Date.now()}-${Math.floor(Math.random() * 1000)}`
OrderId(t, r) == <<"order-">> \o ToDigits(t) \o <<"-">> \o ToDigits(r)

\* lines 586-590; t and t2 are the two readings of the clock, r the random suffix
NewOrder(order, t, r, t2) ==
    [id |-> OrderId(t, r), createdAt |-> t2, selectedSeats |-> order.selectedSeats,
     ticketSelections |-> order.ticketSelections, pricing |-> order.pricing]

\* an add that puts the new order first
addOrderFirst(storage, order, t, r, t2) ==
    JsonStorage(<<NewOrder(order, t, r, t2)>> \o getOrders(storage))

\* lines 584-594: what addOrder writes
addOrder(storage, order, t, r, t2) ==
    JsonStorage(Append(getOrders(storage), NewOrder(order, t, r, t2)))

\* line 598
WithoutId(orders, orderId) == SelectSeq(orders, LAMBDA o : o.id # orderId)

\* a removal that drops the oldest order when no order has the id
removeOrderOrOldest(storage, orderId) ==
    JsonStorage(IF \E j \in DOMAIN getOrders(storage) : getOrders(storage)[j].id = orderId
                THEN WithoutId(getOrders(storage), orderId)
                ELSE IF getOrders(storage) = <<>> THEN <<>> ELSE Tail(getOrders(storage)))

\* lines 596-601: what removeOrder writes
removeOrder(storage, orderId) == JsonStorage(WithoutId(getOrders(storage), orderId))

\* lines 603-605: what clearOrders writes
clearOrders == JsonStorage(<<>>)

-----------------------------------------------------------------------------
(* The record of the last operation *)

\* op: the operation; n, d, st, id: its arguments (a position or an id, a change,
\* the status of the clicked seat before the click, an order id); ok: whether it
\* went through (a selection was emitted, a checkout was handed on, a layout was
\* saved); data: what it handed to its caller; pre: the list it started from.
NoOp == [op |-> "mount", n |-> 0, d |-> 0, st |-> "", ok |-> FALSE, data |-> <<>>,
         id |-> <<>>, pre |-> <<>>]

Op(name) == [NoOp EXCEPT !.op = name]

-----------------------------------------------------------------------------
(* Stored layouts the page may find at mount *)

HallLayout ==
    [id |-> 1, name |-> <<"M">>,
     seats |-> [k \in 1..HallSeats |-> MkSeat("R", k, "available")],
     updatedAt |-> 1]

\* A stored layout with an accessible and an occupied seat.
BookedLayout ==
    [id |-> 1, name |-> <<"M">>,
     seats |-> <<MkSeat("R", 1, "accessible"), MkSeat("R", 2, "occupied")>>,
     updatedAt |-> 1]

\* Two stored layouts of one seat, the first the more recent.
FrontLayout ==
    [id |-> 1, name |-> <<"M">>, seats |-> <<MkSeat("R", 1, "accessible")>>,
     updatedAt |-> 1]

PlainLayout ==
    [id |-> 2, name |-> <<"D">>, seats |-> <<MkSeat("R", 1, "available")>>,
     updatedAt |-> 0]

\* MovieDetails, lines 666-676: the most recently updated layout is the default
RECURSIVE MostRecent(_)
MostRecent(layouts) ==
    IF Len(layouts) = 1 THEN layouts[1]
    ELSE LET rest == MostRecent(Tail(layouts))
         IN  IF rest.updatedAt > Head(layouts).updatedAt THEN rest ELSE Head(layouts)

DefaultLayout(layouts) == IF Len(layouts) > 0 THEN MostRecent(layouts) ELSE NoLayout

\* The page after mount, with `layouts` in localStorage and base price `base`.
MountPage(layouts, base) ==
    /\ layoutStorage = layouts
    /\ availableLayouts = layouts
    /\ currentLayout = DefaultLayout(layouts)
    /\ seats = InitialSeats(DefaultLayout(layouts))
    /\ selectedSeats = SelectedOf(InitialSeats(DefaultLayout(layouts)))
    /\ isAdminMode = FALSE
    /\ editMode = FALSE
    /\ layoutName = (IF DefaultLayout(layouts) # NoLayout
                     THEN DefaultLayout(layouts).name ELSE DefaultLayoutName)
    /\ currentEditStatus = "available"
    /\ showLayoutSelector = FALSE
    /\ editBase = <<>>
    /\ pageSelectedSeats = <<>>
    /\ showTicketCheckout = FALSE
    /\ basePrice = base
    /\ ticketSelections = InitialTicketSelections(0)
    /\ totals = calculateTotals(InitialTicketSelections(0), base)
    /\ last = NoOp

\* No BatchCheckout is on the page.
NoBatch ==
    /\ batchMounted = FALSE
    /\ selectedOrderIds = <<>>
    /\ paymentStep = "select"
    /\ processingPayment = FALSE
    /\ availableOrders = <<>>
    /\ timers = 0

-----------------------------------------------------------------------------
(* MovieDetails handlers *)

\* lines 710-717, with the TicketCheckout effects its render runs
handleSeatSelect(newSelected) ==
    /\ pageSelectedSeats' = newSelected
    /\ showTicketCheckout' = TRUE
    /\ ticketSelections' = SeatChangeEffect(newSelected, ticketSelections)
    /\ totals' = calculateTotals(SeatChangeEffect(newSelected, ticketSelections), basePrice)

-----------------------------------------------------------------------------
(* SeatSelector handlers *)

\* lines 113-152: a click on the seat drawn at position k
handleSeatClick(k) ==
    /\ k \in DOMAIN seats
    /\ IF editMode
       THEN /\ seats' = PaintSeats(seats, seats[k], currentEditStatus)
            /\ selectedSeats' =
                 SelectedSeatsEffect(PaintSeats(seats, seats[k], currentEditStatus),
                                     isAdminMode, selectedSeats)
            /\ last' = [Op("paintSeat") EXCEPT !.n = k, !.st = seats[k].status]
            /\ UNCHANGED <<pageSelectedSeats, showTicketCheckout, ticketSelections, totals>>
       ELSE IF ~Selectable(seats[k].status)
       THEN /\ last' = [Op("selectSeat") EXCEPT !.n = k, !.st = seats[k].status]
            /\ UNCHANGED <<seats, selectedSeats, pageSelectedSeats, showTicketCheckout,
                           ticketSelections, totals>>
       ELSE /\ seats' = ToggleSeats(seats, seats[k])
            /\ selectedSeats' = SelectedOf(ToggleSeats(seats, seats[k]))
            /\ handleSeatSelect(SelectedOf(ToggleSeats(seats, seats[k])))
            /\ last' = [Op("selectSeat") EXCEPT !.n = k, !.st = seats[k].status,
                                                 !.ok = TRUE]
    /\ UNCHANGED <<editBase, isAdminMode, editMode, layoutName, currentEditStatus,
                   showLayoutSelector, currentLayout, availableLayouts, layoutStorage,
                   basePrice, orderStorage, batchVars, now>>

\* lines 203-204: the admin toggle button
ToggleAdminMode ==
    /\ isAdminMode' = ~isAdminMode
    /\ selectedSeats' = SelectedSeatsEffect(seats, ~isAdminMode, selectedSeats)
    /\ last' = Op("toggleAdmin")
    /\ UNCHANGED <<editBase, seats, editMode, layoutName, currentEditStatus, showLayoutSelector,
                   pageVars, ticketVars, orderStorage, batchVars, now>>

\* lines 232-238: the Edit Layout button, drawn in admin mode outside edit mode
EnterEditMode ==
    /\ isAdminMode /\ ~editMode
    /\ editMode' = TRUE
    /\ editBase' = InitialSeats(currentLayout)
    /\ last' = Op("editLayout")
    /\ UNCHANGED <<seats, selectedSeats, isAdminMode, layoutName, currentEditStatus,
                   showLayoutSelector, pageVars, ticketVars, orderStorage, batchVars, now>>

\* lines 276-327: the palette, drawn in admin mode inside edit mode
SetCurrentEditStatus(status) ==
    /\ isAdminMode /\ editMode
    /\ status \in {"available", "accessible", "empty"}
    /\ currentEditStatus' = status
    /\ last' = [Op("setEditStatus") EXCEPT !.st = status]
    /\ UNCHANGED <<editBase, seats, selectedSeats, isAdminMode, editMode, layoutName,
                   showLayoutSelector, pageVars, ticketVars, orderStorage, batchVars, now>>

\* lines 262-268: the name input, drawn in admin mode inside edit mode
SetLayoutName(name) ==
    /\ isAdminMode /\ editMode
    /\ layoutName' = name
    /\ last' = Op("setLayoutName")
    /\ UNCHANGED <<editBase, seats, selectedSeats, isAdminMode, editMode, currentEditStatus,
                   showLayoutSelector, pageVars, ticketVars, orderStorage, batchVars, now>>

LayoutIds(layouts) == {layouts[j].id : j \in DOMAIN layouts}

\* a save that always appends
PushLayout(layouts, layout) == Append(layouts, layout)

\* MovieDetails lines 722-730: the first stored layout with the id is replaced,
\* or the layout is appended
PutLayout(layouts, layout) ==
    IF \E j \in DOMAIN layouts : layouts[j].id = layout.id
    THEN LET first == CHOOSE j \in DOMAIN layouts :
                          /\ layouts[j].id = layout.id
                          /\ \A i \in 1..(j - 1) : layouts[i].id # layout.id
         IN  [layouts EXCEPT ![first] = layout]
    ELSE Append(layouts, layout)

\* SeatSelector lines 155-172 and MovieDetails lines 720-735; uuid is the value
\* of crypto.randomUUID(), read only when there is no initialLayout
handleSaveLayout(uuid) ==
    /\ isAdminMode /\ editMode
    /\ IF Trim(layoutName) = <<>>
       THEN /\ last' = Op("saveLayout")
            /\ UNCHANGED <<editMode, editBase, currentLayout, availableLayouts, layoutStorage>>
       ELSE LET newLayout ==
                    [id |-> IF currentLayout # NoLayout THEN currentLayout.id ELSE uuid,
                     name |-> layoutName,
                     seats |-> seats,
                     updatedAt |-> now]
            IN  /\ layoutStorage' = PutLayout(layoutStorage, newLayout)
                /\ availableLayouts' = PutLayout(layoutStorage, newLayout)
                /\ currentLayout' = newLayout
                /\ editMode' = FALSE
                /\ editBase' = <<>>
                /\ last' = [Op("saveLayout") EXCEPT !.ok = TRUE, !.n = newLayout.id]
    /\ UNCHANGED <<seats, selectedSeats, isAdminMode, layoutName, currentEditStatus,
                   showLayoutSelector, pageSelectedSeats, showTicketCheckout,
                   ticketVars, orderStorage, batchVars, now>>

\* lines 181-185, and the effect on [isAdminMode, seats]
handleCancelEdit ==
    /\ isAdminMode /\ editMode
    /\ seats' = InitialSeats(currentLayout)
    /\ editMode' = FALSE
    /\ editBase' = <<>>
    /\ selectedSeats' = SelectedSeatsEffect(InitialSeats(currentLayout), isAdminMode,
                                            selectedSeats)
    /\ last' = Op("cancelEdit")
    /\ UNCHANGED <<isAdminMode, layoutName, currentEditStatus, showLayoutSelector,
                   pageVars, ticketVars, orderStorage, batchVars, now>>

\* lines 226-231: the Load Layout button, drawn in admin mode outside edit mode
ToggleLayoutSelector ==
    /\ isAdminMode /\ ~editMode
    /\ showLayoutSelector' = ~showLayoutSelector
    /\ last' = Op("toggleLayoutSelector")
    /\ UNCHANGED <<editBase, seats, selectedSeats, isAdminMode, editMode, layoutName,
                   currentEditStatus, pageVars, ticketVars, orderStorage, batchVars, now>>

\* MovieDetails lines 738-745
handleLoadLayout(layoutId) ==
    IF \E j \in DOMAIN availableLayouts : availableLayouts[j].id = layoutId
    THEN /\ currentLayout' =
              availableLayouts[CHOOSE j \in DOMAIN availableLayouts :
                  /\ availableLayouts[j].id = layoutId
                  /\ \A i \in 1..(j - 1) : availableLayouts[i].id # layoutId]
         /\ pageSelectedSeats' = <<>>
         /\ showTicketCheckout' = FALSE
    ELSE UNCHANGED <<currentLayout, pageSelectedSeats, showTicketCheckout>>

\* lines 175-178 and 334-356: a click on a layout of the selector, which is drawn
\* in admin mode; the new selectedSeats prop is empty, so the TicketCheckout effect
\* resets nothing
handleLayoutSelect(j) ==
    /\ isAdminMode /\ showLayoutSelector
    /\ j \in DOMAIN availableLayouts
    /\ handleLoadLayout(availableLayouts[j].id)
    /\ showLayoutSelector' = FALSE
    /\ last' = [Op("loadLayout") EXCEPT !.n = availableLayouts[j].id]
    /\ UNCHANGED <<editBase, seats, selectedSeats, isAdminMode, editMode, layoutName,
                   currentEditStatus, availableLayouts, layoutStorage, ticketVars,
                   orderStorage, batchVars, now>>

\* The Save Layout button: crypto.randomUUID() is read only when no layout is
\* active
SaveLayout ==
    IF currentLayout # NoLayout
    THEN handleSaveLayout(currentLayout.id)
    ELSE \E uuid \in 1..MaxLayoutId : handleSaveLayout(uuid)

(* The specification of the movie page in viewer and editor mode *)

InitSeat ==
    /\ \E layouts \in {<<>>, <<BookedLayout>>} : MountPage(layouts, 10)
    /\ orderStorage = AbsentStorage
    /\ NoBatch
    /\ now = 2

NextSeat ==
    \/ \E k \in 1..Len(seats) : handleSeatClick(k)
    \/ ToggleAdminMode
    \/ EnterEditMode
    \/ \E status \in {"available", "accessible", "empty"} : SetCurrentEditStatus(status)
    \/ SaveLayout
    \/ handleCancelEdit

SpecSeat == InitSeat /\ [][NextSeat]_vars

-----------------------------------------------------------------------------
(* Properties of seat selection *)

\* C1: a seat toggled selected and then toggled again is back at the status it
\* had before the first toggle, also when that status was painted by the editor
\* earlier, and neither toggle changes any originalStatus.
C1_RoundTrip ==
    [][/\ (last'.op = "selectSeat" =>
              /\ DOMAIN seats' = DOMAIN seats
              /\ \A j \in DOMAIN seats : seats'[j].originalStatus = seats[j].originalStatus)
       /\ (/\ last.op = "selectSeat" /\ last.ok /\ last.st # "selected"
           /\ last'.op = "selectSeat" /\ last'.n = last.n
           => seats'[last.n].status = last.st)]_vars

\* C2: outside edit mode a click on an occupied or an empty seat changes no seat,
\* no selection and emits no selection to the page.
C2_BlockedClickIsNoOp ==
    [][(last'.op = "selectSeat" /\ last'.st \in {"occupied", "empty"}) =>
          /\ ~last'.ok
          /\ UNCHANGED <<seats, selectedSeats, pageSelectedSeats, showTicketCheckout,
                         ticketSelections, totals>>]_vars

\* An empty cell of the grid has been clicked outside edit mode.
C2_Witness == last.op = "selectSeat" /\ last.st = "empty" /\ ~editMode

\* C23: outside admin mode the SeatSelector's selectedSeats is the list of the
\* seats whose status is selected, whatever was painted, cancelled or selected
\* while admin mode or edit mode was on.
C23_SelectedSeatsInViewerMode ==
    ~isAdminMode => selectedSeats = SelectSeq(seats, LAMBDA s : s.status = "selected")

\* The selected sample seat was painted empty and admin mode was left.
C23_Witness ==
    /\ ~isAdminMode
    /\ last.op = "toggleAdmin"
    /\ currentLayout = NoLayout
    /\ seats[2].status = "empty"
    /\ selectedSeats = <<>>

\* C26: the page's list of selected seats is the list of the seats whose status
\* is selected in the SeatSelector, right after mount with the sample layout and
\* after paints, cancels and loads too.
C26_PageSelectionMatchesSeats ==
    pageSelectedSeats = SelectSeq(seats, LAMBDA s : s.status = "selected")

\* C27: edit mode is on only while admin mode is on, so a seat click outside
\* admin mode never paints a seat.
C27_EditOnlyInAdmin ==
    /\ editMode => isAdminMode
    /\ last.op = "paintSeat" => isAdminMode

\* C17: in edit mode a paint gives the clicked seat the palette's status whatever
\* status it had, changes no other seat and no originalStatus, and the palette's
\* status is always available, accessible or empty, so a paint never yields
\* occupied or selected.
C17_PaintSeat ==
    [][/\ currentEditStatus' \in {"available", "accessible", "empty"}
       /\ last'.op = "paintSeat" =>
             /\ editMode
             /\ DOMAIN seats' = DOMAIN seats
             /\ \A j \in DOMAIN seats :
                    seats'[j] = [seats[j] EXCEPT
                                    !.status = IF j = last'.n THEN currentEditStatus ELSE @]
             /\ seats'[last'.n].status \notin {"occupied", "selected"}]_vars

\* An occupied seat has just been painted empty.
C17_Witness ==
    /\ last.op = "paintSeat"
    /\ last.st = "occupied"
    /\ seats[last.n].status = "empty"

-----------------------------------------------------------------------------
(* The specification of the movie page with the layout name and the layout
   selector; the palette stays at its initial choice *)

InitLayout ==
    /\ \E layouts \in {<<>>, <<FrontLayout, PlainLayout>>} : MountPage(layouts, 10)
    /\ orderStorage = AbsentStorage
    /\ NoBatch
    /\ now = 2

NextLayout ==
    \/ \E k \in 1..Len(seats) : handleSeatClick(k)
    \/ ToggleAdminMode
    \/ EnterEditMode
    \/ \E name \in LayoutNames : SetLayoutName(name)
    \/ SaveLayout
    \/ handleCancelEdit
    \/ ToggleLayoutSelector
    \/ \E j \in 1..MaxLayoutId : handleLayoutSelect(j)

SpecLayout == InitLayout /\ [][NextLayout]_vars

-----------------------------------------------------------------------------
(* Properties of layouts *)

\* C13: loadLayout of an available layout makes the seats of the seat map the
\* seats of that layout and empties the selection of the seat map and the
\* selection held by the page.
C13_LoadLayout ==
    [][last'.op = "loadLayout" =>
          /\ currentLayout'.id = last'.n
          /\ seats' = currentLayout'.seats
          /\ selectedSeats' = <<>>
          /\ pageSelectedSeats' = <<>>]_vars

\* C14: cancelEdit leaves every seat with the status it has in the layout that
\* was active when edit mode was entered, and leaves edit mode.
C14_CancelEdit ==
    [][last'.op = "cancelEdit" =>
          /\ ~editMode'
          /\ DOMAIN seats' = DOMAIN editBase
          /\ \A j \in DOMAIN editBase : seats'[j].status = editBase[j].status]_vars

\* C15: saveLayout with a name that is empty or all white space changes nothing:
\* no layout is handed to the page, the stored and the available layouts, the
\* active layout and the seats stay as they were, and edit mode stays on.
C15_BlankNameRefused ==
    [][(last'.op = "saveLayout" /\ \A i \in DOMAIN layoutName : layoutName[i] = " ") =>
          /\ ~last'.ok
          /\ editMode /\ editMode'
          /\ UNCHANGED <<seatVars, pageVars>>]_vars

\* A save with a name of one space has been refused.
C15_Witness ==
    /\ last.op = "saveLayout" /\ ~last.ok
    /\ layoutName = <<" ">>
    /\ editMode

\* C16: saveLayout with a name that is not blank hands the page a layout with the
\* id of the active layout, or with a new id when no layout is active, and with
\* the current seats, and leaves edit mode; in the store the layout takes the
\* place of the layout with its id, or is appended when there is none, so no two
\* stored layouts share an id.
C16_SaveLayout ==
    [][(last'.op = "saveLayout" /\ \E i \in DOMAIN layoutName : layoutName[i] # " ") =>
          LET handed == currentLayout'
              known  == \E j \in DOMAIN layoutStorage : layoutStorage[j].id = handed.id
          IN  /\ last'.ok
              /\ handed # NoLayout
              /\ (currentLayout # NoLayout => handed.id = currentLayout.id)
              /\ (currentLayout = NoLayout => ~known)
              /\ handed.seats = seats
              /\ handed.name = layoutName
              /\ seats' = seats
              /\ ~editMode'
              /\ availableLayouts' = layoutStorage'
              /\ Len(layoutStorage') = Len(layoutStorage) + (IF known THEN 0 ELSE 1)
              /\ \A j \in DOMAIN layoutStorage :
                     layoutStorage'[j] = (IF layoutStorage[j].id = handed.id
                                          THEN handed ELSE layoutStorage[j])
              /\ (~known => layoutStorage'[Len(layoutStorage')] = handed)
              /\ \A i, j \in DOMAIN layoutStorage' :
                     i # j => layoutStorage'[i].id # layoutStorage'[j].id]_vars

\* The second stored layout was loaded and a save has put the current seats in
\* its place.
C16_Witness ==
    /\ last.op = "saveLayout" /\ last.ok
    /\ Len(layoutStorage) = 2
    /\ currentLayout.id = PlainLayout.id
    /\ layoutStorage[2] = currentLayout
    /\ currentLayout.seats # PlainLayout.seats

-----------------------------------------------------------------------------
(* TicketCheckout handlers *)

\* lines 260 and 287: the quantity buttons are drawn when seats are selected;
\* lines 189-204 and the totals effect of lines 168-186
AdjustQuantity(k, change) ==
    /\ Len(pageSelectedSeats) > 0
    /\ k \in DOMAIN Categories
    /\ ticketSelections' = updateTicketQuantity(ticketSelections, Categories[k], change,
                                                Len(pageSelectedSeats))
    /\ totals' = calculateTotals(updateTicketQuantity(ticketSelections, Categories[k],
                                     change, Len(pageSelectedSeats)), basePrice)
    /\ last' = [Op("adjustQuantity") EXCEPT !.n = k, !.d = change,
                    !.ok = (updateTicketQuantity(ticketSelections, Categories[k], change,
                                Len(pageSelectedSeats)) # ticketSelections)]
    /\ UNCHANGED <<seatVars, pageVars, basePrice, orderStorage, batchVars, now>>

\* a Complete Order button that is always drawn and never disabled
CheckoutButtonAlways == TRUE

\* lines 260 and 395-401: the Complete Order button is drawn and not disabled
CheckoutButtonEnabled ==
    /\ Len(pageSelectedSeats) # 0
    /\ ~(totalTicketsSelected # Len(pageSelectedSeats) \/ totalTicketsSelected = 0)

\* lines 214-220
CheckoutData ==
    [selectedSeats |-> pageSelectedSeats, ticketSelections |-> ticketSelections,
     pricing |-> totals]

\* MovieDetails lines 748-755: the page logs the data and shows an alert
MovieDetails_handleCheckoutComplete(data) == UNCHANGED <<pageVars, orderStorage>>

\* lines 207-227: an attempt to complete the order
handleCheckout ==
    /\ IF CheckoutButtonEnabled /\ totalTicketsSelected = Len(pageSelectedSeats)
       THEN /\ MovieDetails_handleCheckoutComplete(CheckoutData)
            /\ last' = [Op("checkout") EXCEPT !.ok = TRUE, !.data = <<CheckoutData>>]
       ELSE /\ last' = Op("checkout")
            /\ UNCHANGED <<pageVars, orderStorage>>
    /\ UNCHANGED <<seatVars, ticketVars, batchVars, now>>

(* The specification of a viewer choosing seats and tickets *)

InitTicket ==
    /\ \E layouts \in {<<>>, <<HallLayout>>} : \E base \in BasePrices :
           MountPage(layouts, base)
    /\ orderStorage = AbsentStorage
    /\ NoBatch
    /\ now = 0

NextTicket ==
    \/ \E k \in 1..Len(seats) : handleSeatClick(k)
    \/ \E k \in DOMAIN Categories : \E change \in {-1, 1} : AdjustQuantity(k, change)
    \/ handleCheckout

SpecTicket == InitTicket /\ [][NextTicket]_vars

-----------------------------------------------------------------------------
(* Properties of ticket reconciliation *)

\* C3: after adjustQuantity(category, +1 or -1) every quantity is at least 0 and
\* the quantities sum to at most the number of selected seats; an increment that
\* would pass that number changes no quantity; a decrement is applied to the
\* category, floored at 0.
C3_AdjustQuantity ==
    [][last'.op = "adjustQuantity" =>
          LET k == last'.n
              n == Len(pageSelectedSeats)
          IN  /\ \A j \in DOMAIN ticketSelections' : ticketSelections'[j].quantity >= 0
              /\ SumQuantity(ticketSelections') <= Len(pageSelectedSeats')
              /\ (last'.d = 1 /\ SumQuantity(ticketSelections) + 1 > n
                    => ticketSelections' = ticketSelections)
              /\ (last'.d = 1 /\ SumQuantity(ticketSelections) + 1 <= n
                    => ticketSelections' =
                         [ticketSelections EXCEPT ![k].quantity = @ + 1])
              /\ (last'.d = -1
                    => ticketSelections' =
                         [ticketSelections EXCEPT ![k].quantity =
                             IF @ = 0 THEN 0 ELSE @ - 1])]_vars

\* An increment has been refused at the cap, with five seats selected.
C3_Witness ==
    /\ last.op = "adjustQuantity" /\ last.d = 1 /\ ~last.ok
    /\ Len(pageSelectedSeats) = 5
    /\ SumQuantity(ticketSelections) = 5
    /\ ticketSelections[2].quantity > 0

\* C4: checkout hands a CheckoutData to the page exactly when the quantities sum
\* to the number of selected seats and that number is positive; otherwise it is
\* refused and hands nothing; in both cases ticketSelections stays as it was.
C4_CheckoutGate ==
    [][last'.op = "checkout" =>
          /\ last'.ok <=> (/\ SumQuantity(ticketSelections) = Len(pageSelectedSeats)
                           /\ Len(pageSelectedSeats) > 0)
          /\ last'.data = (IF last'.ok
                           THEN <<[selectedSeats |-> pageSelectedSeats,
                                   ticketSelections |-> ticketSelections,
                                   pricing |-> totals]>>
                           ELSE <<>>)
          /\ UNCHANGED <<ticketSelections, pageSelectedSeats, seats>>]_vars

\* A checkout has been refused with no seat selected and no ticket chosen.
C4_Witness ==
    /\ last.op = "checkout" /\ ~last.ok
    /\ Len(pageSelectedSeats) = 0 /\ SumQuantity(ticketSelections) = 0

\* C18: the totals are those of the current quantities: the subtotal is the sum
\* over the categories of quantity times the category's price, the tax is the
\* subtotal times the tax rate and the total is their sum; and the pricing of a
\* CheckoutData handed over by a checkout is these totals for the quantities it
\* carries, so 2 adult and 1 child ticket at 8% cost (2 adult + 1 child) x 1.08.
C18_Totals ==
    LET Sum(sel) == sel[1].quantity * basePrice * 10000
                    + sel[2].quantity * basePrice * 8500
                    + sel[3].quantity * basePrice * 6000
        Right(sel, t) == /\ sel[1].category = "adult"
                         /\ sel[2].category = "teen"
                         /\ sel[3].category = "child"
                         /\ t.subtotal = Sum(sel)
                         /\ t.tax * 100 = t.subtotal * 8
                         /\ t.total = t.subtotal + t.tax
    IN  /\ Right(ticketSelections, totals)
        /\ (last.op = "checkout" /\ last.ok) =>
               /\ Right(last.data[1].ticketSelections, last.data[1].pricing)
               /\ last.data[1].pricing.total * 100
                     = Sum(last.data[1].ticketSelections) * 108

\* A checkout of three seats with 2 adult tickets and 1 child ticket went through.
C18_Witness ==
    /\ last.op = "checkout" /\ last.ok
    /\ Len(last.data[1].selectedSeats) = 3
    /\ last.data[1].ticketSelections[1].quantity = 2
    /\ last.data[1].ticketSelections[3].quantity = 1
    /\ last.data[1].pricing.total * 100 = (2 * basePrice * 10000 + basePrice * 6000) * 108

\* C5: a checkout that went through leaves the ticket-order store one order
\* longer, the new order carrying the seats, ticket selections and pricing of the
\* checkout.
C5_CheckoutPersists ==
    [][(last'.op = "checkout" /\ last'.ok) =>
          LET before == getOrders(orderStorage)
              after  == getOrders(orderStorage')
          IN  /\ Len(after) = Len(before) + 1
              /\ SubSeq(after, 1, Len(before)) = before
              /\ after[Len(after)].selectedSeats = pageSelectedSeats
              /\ after[Len(after)].ticketSelections = ticketSelections
              /\ after[Len(after)].pricing = totals]_vars

\* C12: a toggle that leaves n > 0 seats selected resets the quantities to
\* min(n, 4) adult tickets and none of the other categories; a toggle that leaves
\* no seat selected leaves the quantities as they were.
C12_SeatChangeReset ==
    [][(last'.op = "selectSeat" /\ last'.ok) =>
          LET n == Len(pageSelectedSeats')
          IN  /\ (n > 0 =>
                    ticketSelections' =
                        <<[category |-> "adult", quantity |-> IF n < 4 THEN n ELSE 4],
                          [category |-> "teen", quantity |-> 0],
                          [category |-> "child", quantity |-> 0]>>)
              /\ (n = 0 => ticketSelections' = ticketSelections)]_vars

\* The last seat was deselected and the ticket chosen for it is still counted.
C12_Witness ==
    /\ last.op = "selectSeat" /\ last.ok
    /\ Len(pageSelectedSeats) = 0
    /\ SumQuantity(ticketSelections) > 0

\* C12 as stated: every toggle, also one that leaves no seat selected, resets the
\* quantities to min(n, 4) adult tickets and none of the other categories.
C12_AsStated ==
    [][(last'.op = "selectSeat" /\ last'.ok) =>
          LET n == Len(pageSelectedSeats')
          IN  ticketSelections' =
                  <<[category |-> "adult", quantity |-> IF n < 4 THEN n ELSE 4],
                    [category |-> "teen", quantity |-> 0],
                    [category |-> "child", quantity |-> 0]>>]_vars

-----------------------------------------------------------------------------
(* Operations on the ticket-order store *)

\* The order of a checkout of the first n seats of the hall, one adult each.
OrderOfSeats(n) ==
    [selectedSeats |-> [k \in 1..n |-> [MkSeat("R", k, "available")
                                           EXCEPT !.status = "selected"]],
     ticketSelections |-> InitialTicketSelections(n),
     pricing |-> calculateTotals(InitialTicketSelections(n), 10)]

\* ticketOrderService.addOrder(order): r is the random suffix, dt the time that
\* passes between Date.now() and new Date()
StoreAdd(order, r, dt) ==
    /\ Len(getOrders(orderStorage)) < MaxOrders
    /\ r \in 0..(SuffixRange - 1)
    /\ now + dt <= MaxTime
    /\ orderStorage' = addOrder(orderStorage, order, now, r, now + dt)
    /\ now' = now + dt
    /\ last' = [Op("add") EXCEPT !.ok = TRUE, !.id = OrderId(now, r),
                                  !.pre = getOrders(orderStorage)]
    /\ UNCHANGED <<seatVars, pageVars, ticketVars, batchVars>>

\* ticketOrderService.removeOrder(orderId); ok and pre tell that the id is the one
\* the add just before returned, and the list that add started from; n is 2 when
\* the operation before was a remove of the same id
StoreRemove(orderId) ==
    /\ orderStorage' = removeOrder(orderStorage, orderId)
    /\ last' = [Op("remove") EXCEPT
                   !.id = orderId,
                   !.n = (IF last.op = "remove" /\ last.id = orderId THEN 2 ELSE 1),
                   !.ok = (last.op = "add" /\ last.id = orderId),
                   !.pre = IF last.op = "add" /\ last.id = orderId
                           THEN last.pre ELSE <<>>]
    /\ UNCHANGED <<seatVars, pageVars, ticketVars, batchVars, now>>

\* ticketOrderService.getOrders(): data is the list the caller receives; ok tells
\* that it returned a list, as it does in every case (the catch of lines 577-580
\* logs to the console and returns [])
StoreList ==
    /\ last' = [Op("list") EXCEPT !.ok = TRUE, !.data = getOrders(orderStorage)]
    /\ UNCHANGED <<seatVars, pageVars, ticketVars, orderStorage, batchVars, now>>

\* ticketOrderService.clearOrders()
StoreClear ==
    /\ orderStorage' = clearOrders
    /\ last' = Op("clear")
    /\ UNCHANGED <<seatVars, pageVars, ticketVars, batchVars, now>>

\* a millisecond passes
Tick ==
    /\ now < MaxTime
    /\ now' = now + 1
    /\ UNCHANGED <<seatVars, pageVars, ticketVars, orderStorage, batchVars, last>>

StoredIds == {getOrders(orderStorage)[j].id : j \in DOMAIN getOrders(orderStorage)}

\* The ids addOrder can build within the bounds.
AllOrderIds == {OrderId(t, r) : t \in 0..MaxTime, r \in 0..(SuffixRange - 1)}

(* The specification of the store under its three operations *)

InitStore ==
    /\ MountPage(<<>>, 10)
    /\ orderStorage \in {AbsentStorage, CorruptStorage}
    /\ NoBatch
    /\ now = 0

NextStore ==
    \/ \E n \in 1..2 : \E r \in 0..(SuffixRange - 1) : \E dt \in 0..1 :
           StoreAdd(OrderOfSeats(n), r, dt)
    \/ \E orderId \in AllOrderIds : StoreRemove(orderId)
    \/ StoreList
    \/ StoreClear
    \/ Tick

SpecStore == InitStore /\ [][NextStore]_vars

-----------------------------------------------------------------------------
(* Properties of the store *)

\* C9: add(order) followed by remove of the id of the order it returned leaves
\* the stored list equal, in content and order, to the list add started from.
C9_AddThenRemove == (last.op = "remove" /\ last.ok) => getOrders(orderStorage) = last.pre

\* C10: no two orders of the store share an id.
C10_UniqueIds ==
    \A i, j \in DOMAIN getOrders(orderStorage) :
        i # j => getOrders(orderStorage)[i].id # getOrders(orderStorage)[j].id

\* C11: remove(orderId) leaves the stored orders with another id, in their order
\* and unchanged; with an id that no stored order has it leaves the stored list
\* as it was; a second remove of the same id leaves the list the first one left.
C11_RemoveIdempotent ==
    [][last'.op = "remove" =>
          /\ getOrders(orderStorage') =
                 SelectSeq(getOrders(orderStorage), LAMBDA o : o.id # last'.id)
          /\ (last'.id \notin StoredIds =>
                 getOrders(orderStorage') = getOrders(orderStorage))
          /\ (last'.n = 2 => getOrders(orderStorage') = getOrders(orderStorage))]_vars

\* An id was removed a second time from a store that still holds an order.
C11_Witness ==
    /\ last.op = "remove" /\ last.n = 2
    /\ getOrders(orderStorage) # <<>>
    /\ last.id \notin StoredIds

\* C21: add puts the new order at the end of the stored list and leaves the
\* orders stored before as they were and where they were; list returns the
\* stored orders in the order of their insertion and does not change the store.
C21_AddAppends ==
    [][/\ (last' # last /\ last'.op = "add") =>
             /\ Len(getOrders(orderStorage')) = Len(getOrders(orderStorage)) + 1
             /\ \A j \in DOMAIN getOrders(orderStorage) :
                    getOrders(orderStorage')[j] = getOrders(orderStorage)[j]
             /\ getOrders(orderStorage')[Len(getOrders(orderStorage'))].id = last'.id
       /\ (last' # last /\ last'.op = "list") =>
             /\ orderStorage' = orderStorage
             /\ last'.data = (IF orderStorage.kind = "json" THEN orderStorage.orders ELSE <<>>)
             /\ \A i, j \in DOMAIN last'.data :
                    i < j => last'.data[i].createdAt <= last'.data[j].createdAt]_vars

\* list has returned two orders that were added at different times.
C21_Witness ==
    /\ last.op = "list"
    /\ Len(last.data) = 2
    /\ last.data[1].createdAt < last.data[2].createdAt
    /\ last.data = orderStorage.orders

\* C22: while the store holds content that cannot be parsed, a read tells its
\* caller of the failure, and an add or a remove leaves the stored content as it
\* is.
C22_CorruptContentKept ==
    [][(orderStorage.kind = "corrupt" /\ last' # last) =>
          /\ last'.op = "list" => ~last'.ok
          /\ last'.op \in {"add", "remove"} => orderStorage' = orderStorage]_vars

-----------------------------------------------------------------------------
(* Batch checkout: BatchCheckout.tsx and CheckoutPage.tsx *)

Range(f) == {f[j] : j \in DOMAIN f}

OrderIdsOf(orders) == [j \in DOMAIN orders |-> orders[j].id]

\* lines 29-35
toggleOrderSelection(ids, orderId) ==
    IF orderId \in Range(ids)
    THEN SelectSeq(ids, LAMBDA id : id # orderId)
    ELSE Append(ids, orderId)

\* a Select All that takes the ids of the stored orders
toggleSelectAllStored(ids, orders) ==
    IF Len(ids) = Len(orders) THEN <<>> ELSE OrderIdsOf(getOrders(orderStorage))

\* lines 37-43
toggleSelectAll(ids, orders) ==
    IF Len(ids) = Len(orders) THEN <<>> ELSE OrderIdsOf(orders)

\* a filter that keeps the selected orders
OnlySelected(orders, ids) == SelectSeq(orders, LAMBDA o : o.id \in Range(ids))

\* line 48
WithoutSelected(orders, ids) == SelectSeq(orders, LAMBDA o : o.id \notin Range(ids))

\* a settlement that removes the first id only
RemoveFirst(storage, ids) ==
    IF ids = <<>> THEN storage ELSE removeOrder(storage, Head(ids))

\* CheckoutPage lines 22-24: removeOrder for each id in turn
RECURSIVE RemoveEach(_, _)
RemoveEach(storage, ids) ==
    IF ids = <<>> THEN storage
    ELSE RemoveEach(removeOrder(storage, Head(ids)), Tail(ids))

\* a list that takes every order of the working list
selectedOrdersAll == availableOrders

\* line 54
selectedOrders == SelectSeq(availableOrders, LAMBDA o : o.id \in Range(selectedOrderIds))

RECURSIVE SumTotal(_)
SumTotal(orders) ==
    IF orders = <<>> THEN 0 ELSE Head(orders).pricing.total + SumTotal(Tail(orders))

RECURSIVE SumTickets(_)
SumTickets(orders) ==
    IF orders = <<>> THEN 0
    ELSE SumQuantity(Head(orders).ticketSelections) + SumTickets(Tail(orders))

\* line 55
totalAmount == SumTotal(selectedOrders)

\* lines 56-58
totalTickets == SumTickets(selectedOrders)

\* CheckoutPage lines 13-18 and 42-66, BatchCheckout lines 15-20: the page after
\* it loaded the stored orders
MountCheckoutPage ==
    /\ batchMounted = (Len(getOrders(orderStorage)) # 0)
    /\ selectedOrderIds = OrderIdsOf(getOrders(orderStorage))
    /\ paymentStep = "select"
    /\ processingPayment = FALSE
    /\ availableOrders = getOrders(orderStorage)
    /\ timers = 0

\* line 152: the checkbox of an order of the working list, drawn in step select
ToggleOrder(j) ==
    /\ batchMounted /\ paymentStep = "select"
    /\ j \in DOMAIN availableOrders
    /\ selectedOrderIds' = toggleOrderSelection(selectedOrderIds, availableOrders[j].id)
    /\ last' = [Op("toggleOrder") EXCEPT !.id = availableOrders[j].id]
    /\ UNCHANGED <<seatVars, pageVars, ticketVars, orderStorage, batchMounted, paymentStep,
                   processingPayment, availableOrders, timers, now>>

\* line 104: the Select All checkbox, drawn in step select
ToggleSelectAll ==
    /\ batchMounted /\ paymentStep = "select"
    /\ selectedOrderIds' = toggleSelectAll(selectedOrderIds, availableOrders)
    /\ last' = Op("toggleSelectAll")
    /\ UNCHANGED <<seatVars, pageVars, ticketVars, orderStorage, batchMounted, paymentStep,
                   processingPayment, availableOrders, timers, now>>

\* lines 45-52; the button is drawn in step select while orders are selected
\* (lines 98 and 114)
handleDeleteSelected ==
    /\ batchMounted /\ paymentStep = "select"
    /\ Len(selectedOrderIds) # 0
    /\ availableOrders' = WithoutSelected(availableOrders, selectedOrderIds)
    /\ selectedOrderIds' = <<>>
    /\ last' = Op("deleteSelected")
    /\ UNCHANGED <<seatVars, pageVars, ticketVars, orderStorage, batchMounted, paymentStep,
                   processingPayment, timers, now>>

\* a step that goes to payment with nothing selected too
StepAfterAnyContinue(ids, step) == "payment"

\* lines 61-62: the step after handleContinueToPayment
StepAfterContinue(ids, step) == IF Len(ids) = 0 THEN step ELSE "payment"

\* lines 60-63; the button is drawn in step select (line 326)
handleContinueToPayment ==
    /\ batchMounted /\ paymentStep = "select"
    /\ paymentStep' = StepAfterContinue(selectedOrderIds, paymentStep)
    /\ last' = Op("continueToPayment")
    /\ UNCHANGED <<seatVars, pageVars, ticketVars, orderStorage, batchMounted,
                   selectedOrderIds, processingPayment, availableOrders, timers, now>>

\* lines 83-88: the arrow in the header; in step select it is onCancel, which
\* leaves the page (CheckoutPage lines 30-32)
BackButton ==
    /\ batchMounted /\ paymentStep # "confirmation"
    /\ IF paymentStep = "select"
       THEN batchMounted' = FALSE /\ UNCHANGED paymentStep
       ELSE paymentStep' = "select" /\ UNCHANGED batchMounted
    /\ last' = Op("back")
    /\ UNCHANGED <<seatVars, pageVars, ticketVars, orderStorage, selectedOrderIds,
                   processingPayment, availableOrders, timers, now>>

\* a Pay button that is never disabled
PayButtonAlways == TRUE

\* line 344: disabled={processingPayment}
PayButtonEnabled == ~processingPayment

\* lines 65-72 up to setTimeout; the Pay button is drawn in step payment and
\* disabled while processingPayment (lines 342-346)
handleCompletePayment ==
    /\ batchMounted /\ paymentStep = "payment" /\ PayButtonEnabled
    /\ processingPayment' = TRUE
    /\ timers' = timers + 1
    /\ last' = Op("completePayment")
    /\ UNCHANGED <<seatVars, pageVars, ticketVars, orderStorage, batchMounted,
                   selectedOrderIds, paymentStep, availableOrders, now>>

\* a callback that leaves the step where it is
StepKeptAfterSettlement(step) == step

\* line 70: setPaymentStep('confirmation')
StepAfterSettlement(step) == "confirmation"

\* lines 68-71: the callback of setTimeout; the setters do nothing once the
\* component is gone
SettlementTimer ==
    /\ timers > 0
    /\ timers' = timers - 1
    /\ IF batchMounted
       THEN /\ processingPayment' = FALSE
            /\ paymentStep' = StepAfterSettlement(paymentStep)
       ELSE UNCHANGED <<processingPayment, paymentStep>>
    /\ last' = Op("timer")
    /\ UNCHANGED <<seatVars, pageVars, ticketVars, orderStorage, batchMounted,
                   selectedOrderIds, availableOrders, now>>

\* CheckoutPage lines 20-28
CheckoutPage_handleCheckoutComplete(orderIds) ==
    /\ orderStorage' = RemoveEach(orderStorage, orderIds)
    /\ batchMounted' = FALSE

\* BatchCheckout lines 74-76; the button is drawn in step confirmation (line 361)
handleFinish ==
    /\ batchMounted /\ paymentStep = "confirmation"
    /\ CheckoutPage_handleCheckoutComplete(selectedOrderIds)
    /\ last' = [Op("finish") EXCEPT !.pre = getOrders(orderStorage),
                                     !.data = selectedOrderIds]
    /\ UNCHANGED <<seatVars, pageVars, ticketVars, selectedOrderIds, paymentStep,
                   processingPayment, availableOrders, timers, now>>

\* Orders found in the store when the checkout page opens.
OrderA == NewOrder(OrderOfSeats(1), 0, 0, 0)
OrderB == NewOrder(OrderOfSeats(2), 0, 1, 0)
OrderC == NewOrder(OrderOfSeats(1), 1, 0, 1)
\* an order added in the millisecond of OrderA with the same random suffix
OrderD == NewOrder(OrderOfSeats(2), 0, 0, 0)

(* The specification of the checkout page, with the store changing under it *)

InitBatch ==
    /\ MountPage(<<>>, 10)
    /\ orderStorage \in {JsonStorage(<<OrderA, OrderB, OrderC>>),
                         JsonStorage(<<OrderA, OrderB>>),
                         JsonStorage(<<OrderA, OrderD>>)}
    /\ MountCheckoutPage
    /\ now = 1

NextBatch ==
    \/ \E j \in 1..MaxOrders : ToggleOrder(j)
    \/ ToggleSelectAll
    \/ handleDeleteSelected
    \/ handleContinueToPayment
    \/ BackButton
    \/ handleCompletePayment
    \/ SettlementTimer
    \/ handleFinish
    \/ \E r \in 0..(SuffixRange - 1) : StoreAdd(OrderOfSeats(1), r, 0)
    \/ \E orderId \in StoredIds : StoreRemove(orderId)

SpecBatch == InitBatch /\ [][NextBatch]_vars

-----------------------------------------------------------------------------
(* Properties of the batch checkout *)

\* C6: the step changes only from select to payment, from payment to select and
\* from payment to confirmation; so confirmation is never entered from select and
\* is never left.
C6_StepTransitions ==
    [][paymentStep' # paymentStep =>
          <<paymentStep, paymentStep'>> \in {<<"select", "payment">>,
                                             <<"payment", "select">>,
                                             <<"payment", "confirmation">>}]_vars

\* C7: finish leaves in the store the orders it held whose id is not selected, in
\* their order and unchanged, whatever was added to or removed from the store
\* since the page opened.
C7_FinishRemovesSelected ==
    last.op = "finish" =>
        getOrders(orderStorage) =
            SelectSeq(last.pre, LAMBDA o : \A j \in DOMAIN last.data : o.id # last.data[j])

\* finish has removed a selected order and has kept an order that was added to
\* the store after the page opened.
C7_Witness ==
    /\ last.op = "finish"
    /\ Len(last.pre) > Len(getOrders(orderStorage))
    /\ \E j \in DOMAIN getOrders(orderStorage) :
           getOrders(orderStorage)[j] \notin {OrderA, OrderB, OrderC}

\* C8: deleteSelected takes the selected orders out of the working list, keeps
\* the others in their order, empties the selection and leaves the store alone;
\* from the working list A, B, C with A and C selected it leaves B.
C8_DeleteSelected ==
    [][last'.op = "deleteSelected" =>
          /\ availableOrders' =
                 SelectSeq(availableOrders,
                           LAMBDA o : \A j \in DOMAIN selectedOrderIds :
                                          o.id # selectedOrderIds[j])
          /\ selectedOrderIds' = <<>>
          /\ orderStorage' = orderStorage
          /\ (/\ availableOrders = <<OrderA, OrderB, OrderC>>
              /\ Range(selectedOrderIds) = {OrderA.id, OrderC.id}
              => availableOrders' = <<OrderB>>)]_vars

\* A, B and C were all selected, B was toggled off and deleteSelected left B.
C8_Witness ==
    /\ last.op = "deleteSelected"
    /\ availableOrders = <<OrderB>>
    /\ selectedOrderIds = <<>>
    /\ getOrders(orderStorage) = <<OrderA, OrderB, OrderC>>

\* C19: continueToPayment with nothing selected leaves the step at select and
\* changes nothing, and the step turns to payment only in a continueToPayment
\* invoked while at least one order is selected.
C19_ContinueToPayment ==
    [][/\ last'.op = "continueToPayment" =>
             IF Len(selectedOrderIds) = 0
             THEN /\ paymentStep' = "select"
                  /\ UNCHANGED <<seatVars, pageVars, ticketVars, orderStorage, batchVars, now>>
             ELSE paymentStep' = "payment"
       /\ (paymentStep # "payment" /\ paymentStep' = "payment") =>
             /\ last'.op = "continueToPayment"
             /\ Len(selectedOrderIds) > 0]_vars

\* Continue was invoked with every order unticked.
C19_Witness ==
    /\ last.op = "continueToPayment"
    /\ Len(selectedOrderIds) = 0
    /\ Len(availableOrders) > 0
    /\ paymentStep = "select"

\* C20: toggleOrder takes the id out of the selection when it is selected and
\* puts it in otherwise, changing the membership of no other id; toggleSelectAll
\* empties the selection when every order of the working list is selected and
\* otherwise makes the selection the ids of the working list.
C20_Toggles ==
    [][/\ last'.op = "toggleOrder" =>
             Range(selectedOrderIds') =
                 (IF last'.id \in Range(selectedOrderIds)
                  THEN Range(selectedOrderIds) \ {last'.id}
                  ELSE Range(selectedOrderIds) \cup {last'.id})
       /\ last'.op = "toggleSelectAll" =>
             IF \A j \in DOMAIN availableOrders :
                    availableOrders[j].id \in Range(selectedOrderIds)
             THEN selectedOrderIds' = <<>>
             ELSE selectedOrderIds' = OrderIdsOf(availableOrders)]_vars

\* C24: in every step the total amount and the ticket count shown are the sums
\* over the orders of the working list whose id is selected; the working list
\* never takes an order back, so an order that deleteSelected removed counts in
\* no later total; the totals are functions of the state, so computing them
\* again without a change gives the same values.
C24_TotalsOfSelection ==
    [][LET Chosen(k) == availableOrders'[k].id \in Range(selectedOrderIds')
           amount[k \in 0..Len(availableOrders')] ==
               IF k = 0 THEN 0
               ELSE amount[k - 1]
                    + (IF Chosen(k) THEN availableOrders'[k].pricing.total ELSE 0)
           tickets[k \in 0..Len(availableOrders')] ==
               IF k = 0 THEN 0
               ELSE tickets[k - 1]
                    + (IF Chosen(k)
                       THEN availableOrders'[k].ticketSelections[1].quantity
                            + availableOrders'[k].ticketSelections[2].quantity
                            + availableOrders'[k].ticketSelections[3].quantity
                       ELSE 0)
       IN  /\ totalAmount' = amount[Len(availableOrders')]
           /\ totalTickets' = tickets[Len(availableOrders')]
           /\ Range(availableOrders') \subseteq Range(availableOrders)
           /\ last'.op = "deleteSelected" =>
                  /\ \A k \in DOMAIN availableOrders :
                         availableOrders[k].id \in Range(selectedOrderIds)
                         => availableOrders[k] \notin Range(availableOrders')
                  /\ totalAmount' = 0 /\ totalTickets' = 0]_vars

\* After A and C were deleted, B was ticked again and the payment step shows the
\* total of B alone.
C24_Witness ==
    /\ last.op = "continueToPayment"
    /\ paymentStep = "payment"
    /\ availableOrders = <<OrderB>>
    /\ getOrders(orderStorage) = <<OrderA, OrderB, OrderC>>
    /\ totalAmount = OrderB.pricing.total
    /\ totalTickets = 2

\* C28: the selection does not change between completePayment and the
\* confirmation step nor in it, so the ids the confirmation step shows and hands
\* to finish are those selected when completePayment was invoked, and there is
\* at least one.
C28_SelectionFixedWhilePaying ==
    [][/\ (processingPayment \/ paymentStep = "confirmation") =>
             selectedOrderIds' = selectedOrderIds
       /\ paymentStep' = "confirmation" => selectedOrderIds' # <<>>]_vars

\* C29: an order that deleteSelected took out of the working list is not removed
\* from the store by this page: the selection holds ids of the working list
\* only, the working list takes no order back, and finish leaves in the store
\* every order whose id is not in the working list.
C29_DeletedOrdersStay ==
    [][/\ Range(selectedOrderIds') \subseteq Range(OrderIdsOf(availableOrders'))
       /\ Range(OrderIdsOf(availableOrders')) \subseteq Range(OrderIdsOf(availableOrders))
       /\ last'.op = "deleteSelected" =>
              Range(selectedOrderIds) \cap Range(OrderIdsOf(availableOrders')) = {}
       /\ last'.op = "finish" =>
              \A j \in DOMAIN getOrders(orderStorage) :
                  getOrders(orderStorage)[j].id \notin Range(OrderIdsOf(availableOrders))
                  => getOrders(orderStorage)[j] \in Range(getOrders(orderStorage'))]_vars

\* A and C were deleted from the working list, B was paid, and finish left A
\* and C in the store.
C29_Witness ==
    /\ last.op = "finish"
    /\ availableOrders = <<OrderB>>
    /\ last.data = <<OrderB.id>>
    /\ last.pre = <<OrderA, OrderB, OrderC>>
    /\ getOrders(orderStorage) = <<OrderA, OrderC>>

\* C30: at most one settlement timer is pending, completePayment is invoked only
\* while no payment is processing, also after going back to select and on to
\* payment again, and the confirmation step, once set, is not set again.
C30_OneTimer ==
    [][/\ timers' <= 1
       /\ (last'.op = "completePayment" /\ timers' # timers) =>
              ~processingPayment /\ timers = 0
       /\ paymentStep = "confirmation" => (paymentStep' = "confirmation" /\ timers' = 0)]_vars

\* During processing the user went back to select and on to payment again, where
\* the one timer is still pending.
C30_Witness ==
    /\ last.op = "continueToPayment"
    /\ paymentStep = "payment"
    /\ processingPayment
    /\ timers = 1

-----------------------------------------------------------------------------
(* The checkout page with an event loop that runs a due timer callback *)

\* setTimeout (line 68): the callback is run once its 1500 ms have passed
SpecBatchLive == SpecBatch /\ WF_vars(SettlementTimer)

\* C25: after completePayment the step becomes confirmation, unless the page is
\* left before the timer fires, and processingPayment is true from the
\* invocation until the timer fires.
C25_Settlement ==
    /\ [](timers > 0 => processingPayment)
    /\ [][last'.op = "timer" /\ batchMounted => ~processingPayment']_vars
    /\ (last.op = "completePayment") ~> (paymentStep = "confirmation" \/ ~batchMounted)

\* The timer has fired on the mounted page and the step is confirmation.
C25_Witness ==
    /\ last.op = "timer"
    /\ batchMounted
    /\ paymentStep = "confirmation"
    /\ ~processingPayment
    /\ timers = 0

====
